---- MODULE Spec2Model ----
(***************************************************************************)
(* PriceAlertBot (src/price_alert_bot.py): the alert registry, the         *)
(* evaluation cycle check_alerts and the scheduler loop run.               *)
(*                                                                         *)
(* self.alerts is a Python dict: an insertion-ordered map.  It is modelled *)
(* as a sequence of entries [symbol, alert] in insertion order, so that    *)
(* the iteration order of check_alerts and the "one entry per key" rule of *)
(* dict assignment are both part of the model.  The dict iterator of       *)
(* `for symbol, alert in self.alerts.items()` is modelled by its position  *)
(* and the dict size it recorded when it was created; CPython raises       *)
(* RuntimeError from next() when the size differs.                         *)
(*                                                                         *)
(* Prices are whole numbers (the floats of the program, without fraction). *)
(* An optional value is a sequence of length 0 (None) or 1.                *)
(***************************************************************************)
EXTENDS Integers, Sequences, FiniteSets, TLC

VARIABLES
    alerts,       \* self.alerts, in insertion order
    logged_in,    \* self.logged_in
    quotes,       \* the Quote Source: what api.get_quotes answers, per token,
                  \* during the cycle in progress
    pc,           \* position of the thread that called run()
    it_pos,       \* dict iterator of check_alerts: entries already yielded
    it_used,      \* dict iterator of check_alerts: dict size at creation
    cur,          \* the loop variables symbol, alert and ltp (<<>> outside)
    adds,         \* number of add_alert calls so far
    cycles,       \* number of iterations of the while loop started so far
    \* history of the cycle in progress (or of the last one that ran)
    cycleStart,   \* self.alerts when check_alerts was entered
    fetched,      \* fetch_ltp calls: [symbol, alert, ltp]
    notified,     \* send_telegram_alert calls: [symbol, message, outcome]
    removed,      \* symbols deleted by check_alerts
    addedInCycle, \* symbols given to add_alert while check_alerts was running
    \* history of the whole run
    triggered,    \* symbols notified since they were last added
    lastAdd,      \* arguments of the last add_alert call, and whether the
                  \* symbol had an alert with other criteria before it
    attempts,     \* number of send_telegram_alert calls so far
    retirements,  \* number of alerts deleted by check_alerts so far
    drain         \* Some(N) while, since run() was called with N alerts, no
                  \* alert was added and every cycle was given answers that
                  \* meet the condition of every stored alert; else None

vars == <<alerts, logged_in, quotes, pc, it_pos, it_used, cur, adds, cycles,
          cycleStart, fetched, notified, removed, addedInCycle, triggered,
          lastAdd, attempts, retirements, drain>>

hist == <<cycleStart, fetched, notified, removed, addedInCycle, triggered,
          lastAdd, attempts, retirements, drain>>

----------------------------------------------------------------------------
(* Bounds and input sets *)

MaxAdds == 3
MaxCycles == 2

\* The instruments of the example at the end of the file: symbol, exchange
\* and token.  Two symbols never share a token, so a cycle asks the Quote
\* Source for a token at most once.
Instruments == {<<"RELIANCE-EQ", "NSE", "22">>, <<"TCS-EQ", "NSE", "33">>}
Symbols == {i[1] : i \in Instruments}
Exchanges == {i[2] : i \in Instruments}
Tokens == {i[3] : i \in Instruments}
Targets == {2500, 3000}
Directions == {"above", "below", "sideways"}

None == <<>>
Some(x) == <<x>>

Alerts == [exchange : Exchanges, token : Tokens,
           target_price : Targets, direction : Directions]

----------------------------------------------------------------------------
(* The dict self.alerts *)

DictKeys(d) == {d[i].symbol : i \in DOMAIN d}

DictIndex(d, k) == CHOOSE i \in DOMAIN d : d[i].symbol = k

DictGet(d, k) == d[DictIndex(d, k)].alert

\* DictSetItem as a list append, which keeps the entry the key had
DictSetItemAppend(d, k, v) == Append(d, [symbol |-> k, alert |-> v])

\* d[k] = v: the value of an existing key is replaced where it stands, a new
\* key goes to the end.
DictSetItem(d, k, v) ==
    IF k \in DictKeys(d)
    THEN [d EXCEPT ![DictIndex(d, k)] = [symbol |-> k, alert |-> v]]
    ELSE Append(d, [symbol |-> k, alert |-> v])

\* a del that removes the first entry of the dict, whatever the key
DictPopFirst(d, k) == IF d = <<>> THEN <<>> ELSE Tail(d)

\* del d[k]
RECURSIVE DictDelItem(_, _)
DictDelItem(d, k) ==
    IF d = <<>> THEN <<>>
    ELSE IF Head(d).symbol = k THEN DictDelItem(Tail(d), k)
    ELSE <<Head(d)>> \o DictDelItem(Tail(d), k)

----------------------------------------------------------------------------
(* The Quote Source and fetch_ltp *)

\* A response of api.get_quotes: it raises, or it returns a dict (body; the
\* empty body stands for None and for {}, which are both falsy).
Raises == [raises |-> TRUE, body |-> <<>>]
Returns(body) == [raises |-> FALSE, body |-> body]

\* An exception, a response without a price field, an unparsable price, and
\* prices below, at and above the target 2500 (and all below the target 3000)
QuoteResponses ==
    {Raises, Returns(<<>>), Returns("lp" :> "n/a"), Returns("lp" :> "2499.0"),
     Returns("lp" :> "2500.0"), Returns("ltp" :> "2501.0")}

\* float(text): the number, or None where Python raises ValueError
float(text) ==
    CASE text = "2499.0" -> Some(2499)
      [] text = "2500.0" -> Some(2500)
      [] text = "2501.0" -> Some(2501)
      [] OTHER -> None

\* fetch_ltp's result for a response of api.get_quotes; every exception,
\* float's ValueError included, is caught and gives None.
fetch_ltp(quote) ==
    IF quote.raises THEN None
    ELSE IF DOMAIN quote.body # {} /\ "lp" \in DOMAIN quote.body
         THEN float(quote.body["lp"])
    ELSE IF DOMAIN quote.body # {} /\ "ltp" \in DOMAIN quote.body
         THEN float(quote.body["ltp"])
    ELSE None

\* Crossing with >= and <= for > and <
CrossingNonStrict(direction, ltp, target) ==
    IF direction = "above" /\ ltp >= target THEN "above"
    ELSE IF direction = "below" /\ ltp <= target THEN "below"
    ELSE ""

\* The branch of check_alerts taken for a fetched price: "above", "below" or
\* "" (no trigger).
Crossing(direction, ltp, target) ==
    IF direction = "above" /\ ltp > target THEN "above"
    ELSE IF direction = "below" /\ ltp < target THEN "below"
    ELSE ""

\* f"Price Alert: {symbol} LTP {ltp} crossed {word} {target}"
Message(symbol, ltp, word, target) ==
    [symbol |-> symbol, ltp |-> ltp, word |-> word, target |-> target]

\* The outcomes of telegram_bot.send_message: it returns, it raises a
\* TelegramError, or it raises an exception of another class.
SendOutcomes == {"sent", "TelegramError", "OtherError"}

\* send_telegram_alert returns normally: `except TelegramError` catches the
\* library's own errors only.
SendReturns(outcome) == outcome \in {"sent", "TelegramError"}

\* api.login returns None on failure
LoginResults == {None, Some("susertoken")}

login_market_api(ret) == ret # None

----------------------------------------------------------------------------
(* The state machine *)

InCycle == pc \in {"iter", "fetch", "notify", "del"}

\* run() ended with an exception
Crashed == pc \in {"RuntimeError", "NotifierError"}

Init ==
    /\ alerts = <<>>
    /\ logged_in = FALSE
    /\ quotes = [t \in Tokens |-> Raises]
    /\ pc = "start"
    /\ it_pos = 0
    /\ it_used = 0
    /\ cur = <<>>
    /\ adds = 0
    /\ cycles = 0
    /\ cycleStart = <<>>
    /\ fetched = <<>>
    /\ notified = <<>>
    /\ removed = {}
    /\ addedInCycle = {}
    /\ triggered = {}
    /\ lastAdd = <<>>
    /\ attempts = 0
    /\ retirements = 0
    /\ drain = None

add_alert(symbol, exchange, token, target_price, direction) ==
    LET alert == [exchange |-> exchange, token |-> token,
                  target_price |-> target_price, direction |-> direction]
    IN  /\ adds < MaxAdds
        /\ adds' = adds + 1
        /\ alerts' = DictSetItem(alerts, symbol, alert)
        /\ lastAdd' = Some([symbol |-> symbol, alert |-> alert,
                             replaced |-> /\ symbol \in DictKeys(alerts)
                                          /\ DictGet(alerts, symbol) # alert])
        /\ triggered' = triggered \ {symbol}
        /\ addedInCycle' = IF InCycle THEN addedInCycle \cup {symbol}
                           ELSE addedInCycle
        /\ drain' = IF pc = "start" THEN drain ELSE None
        /\ UNCHANGED <<logged_in, quotes, pc, it_pos, it_used, cur, cycles,
                       cycleStart, fetched, notified, removed, attempts,
                       retirements>>

\* run without the `if not self.logged_in: return`
run_nogate(ret) ==
    /\ pc = "start"
    /\ logged_in' = login_market_api(ret)
    /\ pc' = "loop"
    /\ drain' = Some(Len(alerts))
    /\ UNCHANGED <<alerts, quotes, it_pos, it_used, cur, adds, cycles,
                   cycleStart, fetched, notified, removed, addedInCycle,
                   triggered, lastAdd, attempts, retirements>>

\* run(), up to the while loop
run(ret) ==
    /\ pc = "start"
    /\ logged_in' = login_market_api(ret)
    /\ pc' = IF logged_in' THEN "loop" ELSE "not_ready"
    /\ drain' = IF logged_in' THEN Some(Len(alerts)) ELSE None
    /\ UNCHANGED <<alerts, quotes, it_pos, it_used, cur, adds, cycles,
                   cycleStart, fetched, notified, removed, addedInCycle,
                   triggered, lastAdd, attempts, retirements>>

\* while_top that, finding the registry empty, evaluates the example alert
\* of __main__ instead of waiting
while_top_default(market) ==
    /\ pc = "loop"
    /\ cycles < MaxCycles
    /\ quotes' = market
    /\ cycles' = cycles + 1
    /\ pc' = IF alerts = <<>> THEN "fetch" ELSE "iter"
    /\ cur' = IF alerts = <<>>
              THEN [symbol |-> "RELIANCE-EQ",
                    alert |-> [exchange |-> "NSE", token |-> "22",
                               target_price |-> 2500, direction |-> "above"]]
              ELSE cur
    /\ it_pos' = 0
    /\ it_used' = Len(alerts)
    /\ cycleStart' = alerts
    /\ fetched' = <<>>
    /\ notified' = <<>>
    /\ removed' = {}
    /\ addedInCycle' = {}
    /\ drain' = IF \A i \in DOMAIN alerts :
                      LET a == alerts[i].alert
                          ltp == fetch_ltp(market[a.token])
                      IN  /\ ltp # None
                          /\ Crossing(a.direction, ltp[1], a.target_price) # ""
                THEN drain ELSE None
    /\ UNCHANGED <<alerts, logged_in, adds, triggered, lastAdd, attempts,
                   retirements>>

\* One pass through the head of `while True`: the empty branch, or the call
\* of check_alerts, which creates the iterator of self.alerts.items().
\* market: what the Quote Source will answer when this cycle asks it.
while_top(market) ==
    /\ pc = "loop"
    /\ cycles < MaxCycles
    /\ quotes' = market
    /\ cycles' = cycles + 1
    /\ pc' = IF alerts = <<>> THEN "sleep" ELSE "iter"
    /\ it_pos' = 0
    /\ it_used' = Len(alerts)
    /\ cycleStart' = alerts
    /\ fetched' = <<>>
    /\ notified' = <<>>
    /\ removed' = {}
    /\ addedInCycle' = {}
    /\ drain' = IF \A i \in DOMAIN alerts :
                      LET a == alerts[i].alert
                          ltp == fetch_ltp(market[a.token])
                      IN  /\ ltp # None
                          /\ Crossing(a.direction, ltp[1], a.target_price) # ""
                THEN drain ELSE None
    /\ UNCHANGED <<alerts, logged_in, cur, adds, triggered, lastAdd, attempts,
                   retirements>>

\* next() of the dict iterator: RuntimeError when the dict changed size
\* (nothing catches it: run() ends with it), the end of the loop, or the next
\* (symbol, alert).
iter_next ==
    /\ pc = "iter"
    /\ IF Len(alerts) # it_used
       THEN pc' = "RuntimeError" /\ UNCHANGED <<it_pos, cur>>
       ELSE IF it_pos >= Len(alerts)
       THEN pc' = "sleep" /\ UNCHANGED <<it_pos, cur>>
       ELSE /\ pc' = "fetch"
            /\ it_pos' = it_pos + 1
            /\ cur' = alerts[it_pos + 1]
    /\ UNCHANGED <<alerts, logged_in, quotes, it_used, adds, cycles>>
    /\ UNCHANGED hist

\* Lines 68 to 73 and 78: fetch the price, compare it with the target.
fetch_compare ==
    /\ pc = "fetch"
    /\ LET ltp == fetch_ltp(quotes[cur.alert.token])
           word == IF ltp = None THEN ""
                   ELSE Crossing(cur.alert.direction, ltp[1], cur.alert.target_price)
       IN  /\ fetched' = Append(fetched, [symbol |-> cur.symbol,
                                          alert |-> cur.alert, ltp |-> ltp])
           /\ pc' = IF word = "" THEN "iter" ELSE "notify"
    /\ UNCHANGED <<alerts, logged_in, quotes, it_pos, it_used, cur, adds,
                   cycles, cycleStart, notified, removed, addedInCycle,
                   triggered, lastAdd, attempts, retirements, drain>>

\* Lines 74 and 79: the call of send_telegram_alert.  An exception it does
\* not catch leaves check_alerts and run(): run() catches KeyboardInterrupt
\* only.
send_telegram_alert(outcome) ==
    /\ pc = "notify"
    /\ LET last == fetched[Len(fetched)]
           word == Crossing(last.alert.direction, last.ltp[1],
                            last.alert.target_price)
       IN  notified' = Append(notified,
               [symbol |-> cur.symbol,
                message |-> Message(cur.symbol, last.ltp[1], word,
                                    last.alert.target_price),
                outcome |-> outcome])
    /\ triggered' = triggered \cup {cur.symbol}
    /\ attempts' = attempts + 1
    /\ pc' = IF SendReturns(outcome) THEN "del" ELSE "NotifierError"
    /\ UNCHANGED <<alerts, logged_in, quotes, it_pos, it_used, cur, adds,
                   cycles, cycleStart, fetched, removed, addedInCycle,
                   lastAdd, retirements, drain>>

\* del_break without the del statement
del_break_keep ==
    /\ pc = "del"
    /\ alerts' = alerts
    /\ removed' = removed
    /\ pc' = "sleep"
    /\ UNCHANGED <<logged_in, quotes, it_pos, it_used, cur, adds, cycles,
                   cycleStart, fetched, notified, addedInCycle,
                   triggered, lastAdd, attempts, retirements, drain>>

\* del_break without the break statement: the for loop goes on
del_nobreak ==
    /\ pc = "del"
    /\ alerts' = DictDelItem(alerts, cur.symbol)
    /\ removed' = removed \cup {cur.symbol}
    /\ retirements' = retirements + 1
    /\ pc' = "iter"
    /\ UNCHANGED <<logged_in, quotes, it_pos, it_used, cur, adds, cycles,
                   cycleStart, fetched, notified, addedInCycle,
                   triggered, lastAdd, attempts, drain>>

\* Lines 76-77 and 81-82: del self.alerts[symbol]; break
del_break ==
    /\ pc = "del"
    /\ alerts' = DictDelItem(alerts, cur.symbol)
    /\ removed' = removed \cup {cur.symbol}
    /\ retirements' = retirements + 1
    /\ pc' = "sleep"
    /\ UNCHANGED <<logged_in, quotes, it_pos, it_used, cur, adds, cycles,
                   cycleStart, fetched, notified, addedInCycle,
                   triggered, lastAdd, attempts, drain>>

\* time.sleep(self.poll_interval) returns.  The locals of check_alerts are
\* gone, and the record of the finished cycle is dropped.
sleep ==
    /\ pc = "sleep"
    /\ pc' = "loop"
    /\ it_pos' = 0
    /\ it_used' = 0
    /\ cur' = <<>>
    /\ quotes' = [t \in Tokens |-> Raises]
    /\ cycleStart' = <<>>
    /\ fetched' = <<>>
    /\ notified' = <<>>
    /\ removed' = {}
    /\ addedInCycle' = {}
    /\ UNCHANGED <<alerts, logged_in, adds, cycles, triggered, lastAdd,
                   attempts, retirements, drain>>

\* KeyboardInterrupt anywhere inside the try block
KeyboardInterrupt ==
    /\ pc \in {"loop", "iter", "fetch", "notify", "del", "sleep"}
    /\ pc' = "stopped"
    /\ UNCHANGED <<alerts, logged_in, quotes, it_pos, it_used, cur, adds,
                   cycles>>
    /\ UNCHANGED hist

Step ==
    \/ \E ret \in LoginResults : run(ret)
    \/ \E market \in [Tokens -> QuoteResponses] : while_top(market)
    \/ iter_next
    \/ fetch_compare
    \/ \E outcome \in SendOutcomes : send_telegram_alert(outcome)
    \/ del_break
    \/ sleep
    \/ KeyboardInterrupt

AddAny ==
    \E i \in Instruments, target_price \in Targets, direction \in Directions :
        add_alert(i[1], i[2], i[3], target_price, direction)

\* The program as written: one thread; add_alert is called before run() and,
\* by whoever owns the bot, between two cycles.
Next ==
    \/ Step
    \/ (pc \in {"start", "loop"} /\ AddAny)

Spec == Init /\ [][Next]_vars

\* add_alert called from another thread at any moment, the middle of a cycle
\* included, until run() has ended
NextConc ==
    \/ Step
    \/ (pc \in {"start", "loop", "iter", "fetch", "notify", "del", "sleep"}
          /\ AddAny)

SpecConc == Init /\ [][NextConc]_vars

----------------------------------------------------------------------------
(* Vocabulary of the properties *)

\* check_alerts has returned normally and run() is about to wait
CycleDone == pc = "sleep" /\ cycleStart # <<>>

\* the price fetch_ltp returns for an alert under the answers of this cycle
LtpFor(alert) == fetch_ltp(quotes[alert.token])

\* the quote fetch of the alert succeeds and its crossing condition is met
Crosses(alert) ==
    /\ LtpFor(alert) # None
    /\ Crossing(alert.direction, LtpFor(alert)[1], alert.target_price) # ""

NotifiedSymbols == {notified[i].symbol : i \in DOMAIN notified}
FetchedSymbols == {fetched[i].symbol : i \in DOMAIN fetched}

----------------------------------------------------------------------------
(* C1 *)

\* C1: when a cycle ends and the quote fetch of every alert that was in the
\* registry at its start succeeds and meets the alert's crossing condition,
\* every one of them has been notified and removed and the registry is empty.
C1_FullCycleProcessing ==
    (CycleDone /\ \A i \in DOMAIN cycleStart : Crosses(cycleStart[i].alert))
        => /\ alerts = <<>>
           /\ NotifiedSymbols = DictKeys(cycleStart)
           /\ removed = DictKeys(cycleStart)

----------------------------------------------------------------------------
(* C2 *)

\* a symbol notified and not added again since is in the registry only
\* between its notification and its removal, or in a run that has ended
C2_AbsentAfterTrigger ==
    pc \in {"loop", "iter", "fetch", "notify", "sleep"}
        => triggered \cap DictKeys(alerts) = {}

\* a notification is never for a symbol already notified and not added again
C2_NoSecondNotification ==
    Len(notified') > Len(notified)
        => notified'[Len(notified')].symbol \notin triggered

\* C2: a symbol that was notified and not added again since is in the
\* registry at no point of a later cycle, and no notification is sent for a
\* symbol that was already notified and not added again since, whatever the
\* Quote Source answers in the later cycles.
C2_NoDoubleTrigger ==
    [](C2_AbsentAfterTrigger) /\ [][C2_NoSecondNotification]_vars

\* A later cycle is evaluating another alert while the answer of the Quote
\* Source still meets the crossing condition of an alert that triggered
\* before and is gone.
C2_Witness ==
    /\ cycles = 2
    /\ pc = "fetch"
    /\ lastAdd # None
    /\ lastAdd[1].symbol \in triggered
    /\ lastAdd[1].symbol \notin DictKeys(alerts)
    /\ Crosses(lastAdd[1].alert)

----------------------------------------------------------------------------
(* C3 *)

\* C3: once the notification of an alert has been attempted and the step
\* after it has been taken (no interrupt), the alert is removed from the
\* registry and the cycle goes on to its end, whatever the outcome of the
\* Notifier call.
C3_RetireRegardlessOfDelivery ==
    \A i \in DOMAIN notified :
        pc \notin {"del", "stopped"}
            => /\ notified[i].symbol \in removed
               /\ notified[i].symbol \notin DictKeys(alerts)
               /\ ~Crashed

----------------------------------------------------------------------------
(* C4 *)

\* the alert is in the registry with the criteria it was fetched with
StillActive(f) ==
    /\ f.symbol \in DictKeys(alerts)
    /\ DictGet(alerts, f.symbol) = f.alert

\* C4: when the cycle is over and it fetched A without success and B with
\* success, A is still active with its criteria and unnotified, and B is
\* notified and removed if its condition was met, still active and
\* unnotified otherwise.
C4_QuoteFailureIsolated ==
    (CycleDone \/ Crashed) =>
        \A i, j \in DOMAIN fetched :
            LET A == fetched[i]
                B == fetched[j]
            IN  (A.ltp = None /\ B.ltp # None) =>
                    /\ StillActive(A)
                    /\ A.symbol \notin NotifiedSymbols
                    /\ IF Crossing(B.alert.direction, B.ltp[1],
                                   B.alert.target_price) # ""
                       THEN /\ B.symbol \in NotifiedSymbols
                            /\ B.symbol \in removed
                            /\ B.symbol \notin DictKeys(alerts)
                       ELSE /\ StillActive(B)
                            /\ B.symbol \notin NotifiedSymbols

----------------------------------------------------------------------------
(* C5 *)

\* C5: when a cycle ends, the price of every alert that was in the registry
\* at its start has been fetched in it.
C5_EveryAlertEvaluated ==
    CycleDone => FetchedSymbols = DictKeys(cycleStart)

----------------------------------------------------------------------------
(* C6 *)

\* C6: run() never ends with an exception of the Quote Source or of the
\* Notifier.
C6_CollaboratorFailuresCaught == pc # "NotifierError"

----------------------------------------------------------------------------
(* C7 *)

\* the alert of the i-th fetch of the cycle took a trigger branch
Triggers(i) ==
    \/ fetched[i].symbol \in NotifiedSymbols
    \/ (i = Len(fetched) /\ pc = "notify")

\* C7: in a cycle that was not interrupted, an alert whose price was fetched
\* triggers, with direction 'above', exactly when the price is greater than
\* the target and, with direction 'below', exactly when it is less; a price
\* equal to the target never triggers.
C7_DirectionStrict ==
    pc # "stopped" =>
        \A i \in DOMAIN fetched :
            LET f == fetched[i]
            IN  f.ltp # None =>
                    /\ f.alert.direction = "above"
                          => (Triggers(i) <=> f.ltp[1] > f.alert.target_price)
                    /\ f.alert.direction = "below"
                          => (Triggers(i) <=> f.ltp[1] < f.alert.target_price)
                    /\ f.ltp[1] = f.alert.target_price => ~Triggers(i)

\* A cycle fetched the target price itself for an 'above' alert, which did
\* not trigger, and then a lower price for a 'below' alert, which did.
C7_Witness ==
    /\ CycleDone
    /\ \E i, j \in DOMAIN fetched :
          /\ fetched[i].alert.direction = "above"
          /\ fetched[i].ltp = Some(fetched[i].alert.target_price)
          /\ ~Triggers(i)
          /\ fetched[j].alert.direction = "below"
          /\ fetched[j].ltp # None
          /\ fetched[j].ltp[1] < fetched[j].alert.target_price
          /\ Triggers(j)

----------------------------------------------------------------------------
(* C8 *)

\* the positions of the entries of symbol k in the dict d
EntriesOf(d, k) == {i \in DOMAIN d : d[i].symbol = k}

\* at most one entry per symbol
C8_OnePerKey ==
    \A k \in Symbols : Cardinality(EntriesOf(alerts, k)) <= 1

\* an add_alert step leaves one entry for its symbol, with its criteria, and
\* the entries of the other symbols as they were
C8_AddReplaces ==
    adds' = adds + 1 =>
        LET k == lastAdd'[1].symbol
        IN  /\ Cardinality(EntriesOf(alerts', k)) = 1
            /\ \A i \in EntriesOf(alerts', k) :
                   alerts'[i].alert = lastAdd'[1].alert
            /\ \A i \in DOMAIN alerts :
                   alerts[i].symbol # k =>
                       \E j \in DOMAIN alerts' : alerts'[j] = alerts[i]
            /\ \A j \in DOMAIN alerts' :
                   alerts'[j].symbol # k =>
                       \E i \in DOMAIN alerts : alerts[i] = alerts'[j]

\* C8: the registry never holds two alerts for one symbol, and right after
\* add_alert(k, ...) it holds exactly one alert for k, with the criteria of
\* that call, and the alerts of the other symbols as they were.
C8_UniqueByKey == [](C8_OnePerKey) /\ [][C8_AddReplaces]_vars

\* add_alert has just replaced the alert of a symbol by one with other
\* criteria, while another symbol has an alert too.
C8_Witness ==
    /\ lastAdd # None
    /\ lastAdd[1].replaced
    /\ Len(alerts) = 2
    /\ DictGet(alerts, lastAdd[1].symbol) = lastAdd[1].alert

----------------------------------------------------------------------------
(* C9 *)

\* without a successful login nothing of the loop has run
C9_NoCycleUnlessLoggedIn ==
    ~logged_in => /\ pc \in {"start", "not_ready"}
                  /\ cycles = 0
                  /\ fetched = <<>>
                  /\ notified = <<>>

\* the return of run() on a failed login, and what follows, keep the registry
C9_StopLeavesRegistry ==
    (pc' = "not_ready" \/ pc = "not_ready") => alerts' = alerts

\* C9: while the login has not succeeded, run() has either not been called
\* or has returned: no loop iteration, no wait, no quote fetch and no
\* notification has happened; and neither the return of run() nor anything
\* after it changes the registry.
C9_ReadinessGate ==
    [](C9_NoCycleUnlessLoggedIn) /\ [][C9_StopLeavesRegistry]_vars

\* run() has returned because the login failed, with alerts in the registry
C9_Witness == pc = "not_ready" /\ ~logged_in /\ Len(alerts) = 2

----------------------------------------------------------------------------
(* C10 *)

\* the fetches of the cycle are those of the alerts of cycleStart, in order
EvaluatedSnapshot ==
    /\ Len(fetched) = Len(cycleStart)
    /\ \A i \in DOMAIN fetched :
          /\ fetched[i].symbol = cycleStart[i].symbol
          /\ fetched[i].alert = cycleStart[i].alert

\* C10: a cycle during which add_alert was called from another thread does
\* not end in an error, and when it ends it has evaluated exactly the alerts
\* that were in the registry when it began.
C10_ConcurrentAddIsolated ==
    addedInCycle # {} =>
        /\ pc # "RuntimeError"
        /\ CycleDone => EvaluatedSnapshot

----------------------------------------------------------------------------
(* C11 *)

\* C11: every alert in the registry, and every alert a cycle evaluates, has
\* the direction 'above' or 'below': add_alert stores no other direction.
C11_DirectionValidated ==
    /\ \A i \in DOMAIN alerts :
          alerts[i].alert.direction \in {"above", "below"}
    /\ \A i \in DOMAIN fetched :
          fetched[i].alert.direction \in {"above", "below"}

----------------------------------------------------------------------------
(* C12 *)

\* C12: a pass of the loop that found the registry empty has asked the Quote
\* Source nothing, has sent nothing and leaves the registry empty, in its
\* wait as at any step it takes, and so has each such pass before it.
C12_EmptyCycleIdle ==
    (cycleStart = <<>> /\ pc \in {"iter", "fetch", "notify", "del", "sleep",
                                  "RuntimeError", "NotifierError"})
        => /\ pc = "sleep"
           /\ alerts = <<>>
           /\ fetched = <<>>
           /\ notified = <<>>
           /\ attempts = retirements

\* the second of two passes of the loop over a registry that was never
\* filled is in its wait
C12_Witness ==
    /\ pc = "sleep"
    /\ cycles = 2
    /\ adds = 0
    /\ cycleStart = <<>>
    /\ alerts = <<>>

----------------------------------------------------------------------------
(* C13 *)

\* C13: when run() has returned on a KeyboardInterrupt, every entry of the
\* registry is a whole alert, an entry of the registry the interrupted cycle
\* started with if a cycle was under way, and no symbol notified in that
\* cycle is still in the registry.
C13_CleanStop ==
    pc = "stopped" =>
        /\ \A i \in DOMAIN alerts :
              /\ alerts[i].symbol \in Symbols
              /\ alerts[i].alert \in Alerts
        /\ cycleStart # <<>> =>
              \A i \in DOMAIN alerts :
                  \E j \in DOMAIN cycleStart : cycleStart[j] = alerts[i]
        /\ NotifiedSymbols \cap DictKeys(alerts) = {}

----------------------------------------------------------------------------
(* C14 *)

\* C14: in one check_alerts call at most one notification is attempted and
\* at most one alert is removed, and once an alert has been removed the
\* iteration is over: the call has returned (the wait, or the stop of run()
\* in it) and asks the iterator for nothing more.
C14_OneRetirementPerCycle ==
    /\ Len(notified) <= 1
    /\ Cardinality(removed) <= 1
    /\ Len(cycleStart) - Len(alerts) <= 1
    /\ removed # {} => pc \in {"sleep", "stopped"}

\* a cycle over two alerts whose conditions are both met has ended with one
\* notification and one removal
C14_Witness ==
    /\ CycleDone
    /\ Len(cycleStart) = 2
    /\ \A i \in DOMAIN cycleStart : Crosses(cycleStart[i].alert)
    /\ Len(notified) = 1
    /\ Cardinality(removed) = 1
    /\ Len(alerts) = 1

----------------------------------------------------------------------------
(* C15 *)

\* the number of alerts still to retire after `cycles` cycles of a run that
\* started with drain[1] alerts and retires one in each
DrainLeft == IF drain[1] > cycles THEN drain[1] - cycles ELSE 0

\* C15: in a run where no alert was added after run() was called with N
\* alerts and every cycle so far was given answers under which every stored
\* alert is fetched and meets its condition, the loop has not ended in an
\* error, and in the wait after cycle number c one alert has been notified
\* and removed in each of the first c cycles (N when c > N): N - c alerts
\* are left, none once N cycles are over.
C15_EventualDrain ==
    drain # None =>
        /\ pc \notin {"NotifierError", "RuntimeError"}
        /\ pc = "sleep" => /\ Len(alerts) = DrainLeft
                           /\ retirements = drain[1] - DrainLeft
                           /\ attempts = retirements

----------------------------------------------------------------------------
(* C16 *)

\* the entries of d whose symbol is not in ks, in the order of d
RECURSIVE Without(_, _)
Without(d, ks) ==
    IF d = <<>> THEN <<>>
    ELSE IF Head(d).symbol \in ks THEN Without(Tail(d), ks)
    ELSE <<Head(d)>> \o Without(Tail(d), ks)

\* when check_alerts has returned the registry is the one the cycle started
\* with less the notified alerts, and at every point of a cycle each alert
\* of its start that was not notified is present with its criteria
C16_RegistryMinusTriggered ==
    /\ CycleDone => alerts = Without(cycleStart, NotifiedSymbols)
    /\ \A i \in DOMAIN cycleStart :
          cycleStart[i].symbol \notin NotifiedSymbols
              => StillActive(cycleStart[i])

\* a step of check_alerts that changes the registry only takes entries out
C16_StepOnlyRemoves ==
    (InCycle /\ alerts' # alerts)
        => \A i \in DOMAIN alerts' : \E j \in DOMAIN alerts : alerts[j] = alerts'[i]

----------------------------------------------------------------------------
(* C17 *)

\* C17: the alerts a cycle has removed are alerts it notified before; the
\* removals of a run never outnumber its notification attempts, and they are
\* as many wherever run() is not between a notification that returned and
\* the del statement after it: before and between cycles, in a cycle up to
\* its notification, and when run() has returned on an interrupt (no call of
\* the notifier has then ended in an error other than TelegramError).
C17_NotificationPrecedesRemoval ==
    /\ removed \subseteq NotifiedSymbols
    /\ retirements <= attempts
    /\ pc \in {"start", "loop", "iter", "fetch", "notify", "sleep", "stopped"}
          => attempts = retirements

----------------------------------------------------------------------------
(* C18 *)

\* the direction of the alert is neither 'above' nor 'below'
Unrecognised(alert) == alert.direction \notin {"above", "below"}

\* C18: an alert with an unrecognised direction that add_alert was called
\* with is in the registry after the call; one that was in the registry when
\* a cycle started has been fetched when the cycle is over, is never
\* notified, whatever the price, and is in the registry with its criteria at
\* every point of the cycle.
C18_UnrecognisedNeverFires ==
    /\ (lastAdd # None /\ Unrecognised(lastAdd[1].alert)
            /\ pc \in {"start", "loop"} /\ cycles = 0)
          => StillActive(lastAdd[1])
    /\ \A i \in DOMAIN cycleStart :
          Unrecognised(cycleStart[i].alert)
              => /\ StillActive(cycleStart[i])
                 /\ cycleStart[i].symbol \notin NotifiedSymbols
                 /\ CycleDone => cycleStart[i].symbol \in FetchedSymbols

====
